---- MODULE Spec2Model ----
(***************************************************************************)
(* micrograd-rs: the scalar autodiff engine of src/value.rs, the network   *)
(* of src/nn.rs and the training loop of src/main.rs.                      *)
(*                                                                         *)
(* A node (ValueInner) lives in an arena, `nodes`; its identity (the       *)
(* Rc<RefCell<ValueInner>> pointer of the source) is its index.  f64 is    *)
(* modelled by the integers, on which +, -, * of the source are exact;     *)
(* tanh is taken to the nearest integer.  The label field is not           *)
(* modelled: no operation reads it back.                                   *)
(***************************************************************************)
EXTENDS Integers, Sequences, FiniteSets, TLC

VARIABLES
    nodes,      \* the arena: Seq of ValueInner records
    stack,      \* call stack of ValueInner::backpropagate: Seq of [node, pc]
    status,     \* "idle" | "running" | "done" | "panicked" (the backpropagate call)
    root,       \* the node Value::backpropagate was last called on (0: none yet)
    calls,      \* number of Value::backpropagate calls made so far
    pushes,     \* history: the nodes in the order they pushed into their operands
    pre,        \* history: the gradients as they were when the last call began
    scenario,   \* the calling program's limits: [maxNodes, maxCalls, roots]
    mlp,        \* the network: [inputs, layers], parameters are node indices
    main,       \* the calling program: [pc, iter, xs, ys, ypred, loss, rate]
    result,     \* the Result of the last Mlp::predict call
    nudged      \* history of the last Mlp::nudge_parameters call

driver == <<scenario, mlp, main, result, nudged>>
vars == <<nodes, stack, status, root, calls, pushes, pre,
          scenario, mlp, main, result, nudged>>

----------------------------------------------------------------------------
(* Bounds of the model *)

MaxNodes == 4
MaxReuseNodes == 3
MaxCalls == 2
MaxAbs == 2
MaxInputs == 2
MaxNeurons == 3
MaxSamples == 2
MaxIters == 2
MaxSeed == 1
MaxPredicts == 2

\* leaf values the graphs are built from (the values of tests::backpropagation)
LeafValues == {-2, 3}

----------------------------------------------------------------------------
(* src/value.rs: Operation, ValueInner and the constructors *)

Operation == {"Constant", "Add", "Sub", "Pow", "Multiply", "Tanh"}

ValueInner(op, l, r, e, v) ==
    [operation |-> op, lhs |-> l, rhs |-> r, exponent |-> e,
     value |-> v, gradient |-> 0]

RECURSIVE IntPow(_, _)
\* f64::powf for a natural exponent
IntPow(b, e) == IF e <= 0 THEN 1 ELSE b * IntPow(b, e - 1)

\* f64::tanh, to the nearest integer: tanh(0) = 0, and |tanh(v)| > 1/2 for
\* every other integer v
TanhVal(v) == IF v > 0 THEN 1 ELSE IF v < 0 THEN -1 ELSE 0

\* Value::new: a Constant leaf, gradient 0.0
ValueNew(ns, v) == Append(ns, ValueInner("Constant", 0, 0, 0, v))

\* Value::tanh and Value::pow
TanhOp(ns, a) == Append(ns, ValueInner("Tanh", a, 0, 0, TanhVal(ns[a].value)))
PowOp(ns, a, e) == Append(ns, ValueInner("Pow", a, 0, e, IntPow(ns[a].value, e)))

\* impl Add / Sub / Mul for Value: a new node, the operands untouched
AddOp(ns, a, b) == Append(ns, ValueInner("Add", a, b, 0, ns[a].value + ns[b].value))
SubOp(ns, a, b) == Append(ns, ValueInner("Sub", a, b, 0, ns[a].value - ns[b].value))
MulOp(ns, a, b) == Append(ns, ValueInner("Multiply", a, b, 0, ns[a].value * ns[b].value))

\* impl Neg for Value: self * Value::new(-1.0, "-1"); two nodes are appended,
\* the constant first and the product last
NegOp(ns, a) == MulOp(ValueNew(ns, -1), a, Len(ns) + 1)

\* mutant of Nudge: the gradient is not reset
NudgeKeepGradient(ns, n, rate) ==
    [ns EXCEPT ![n].value = @ - rate * ns[n].gradient]

\* Value::nudge
Nudge(ns, n, rate) ==
    [ns EXCEPT ![n].value = @ - rate * ns[n].gradient, ![n].gradient = 0]

----------------------------------------------------------------------------
(* src/value.rs: ValueInner::backpropagate, one recursive call per frame *)

Frame(n, pc) == [node |-> n, pc |-> pc]

Top == stack[Len(stack)]

\* mutant of Pop: the call never returns to its caller
PopKeep(s) == s

\* a call of ValueInner::backpropagate returns: its frame leaves the stack
Pop(s) == SubSeq(s, 1, Len(s) - 1)

\* A RefCell is shared-borrowed while `x.borrow().backpropagate()` runs on it:
\* exactly the nodes with a frame on the stack.
Borrowed(n) == \E i \in 1..Len(stack) : stack[i].node = n

\* mutant of AddGradient: the gradient is overwritten (`=`), not accumulated
AddGradientOverwrite(ns, x, d) == [ns EXCEPT ![x].gradient = d]

\* `x.borrow_mut().gradient += d` on arena ns
AddGradient(ns, x, d) == [ns EXCEPT ![x].gradient = @ + d]

\* mutant of Seed: the root's gradient is accumulated into, not overwritten
SeedAccumulate(ns, r) == [ns EXCEPT ![r].gradient = @ + 1]

\* `self.inner.borrow_mut().gradient = 1.0`
Seed(ns, r) == [ns EXCEPT ![r].gradient = 1]

\* Operation::Add arm, the two accumulate statements in their order
PushAdd(ns, n) ==
    LET g == ns[n].gradient
    IN AddGradient(AddGradient(ns, ns[n].lhs, g), ns[n].rhs, g)

\* mutant of PushSub: the right operand is added to, as in the Add arm
PushSubAsAdd(ns, n) == PushAdd(ns, n)

\* Operation::Sub arm
PushSub(ns, n) ==
    LET g == ns[n].gradient
    IN AddGradient(AddGradient(ns, ns[n].lhs, g), ns[n].rhs, -g)

\* Operation::Multiply arm
PushMultiply(ns, n) ==
    LET g == ns[n].gradient
        n1 == AddGradient(ns, ns[n].lhs, ns[ns[n].rhs].value * g)
    IN AddGradient(n1, ns[n].rhs, n1[ns[n].lhs].value * g)

\* Operation::Pow arm
PushPow(ns, n) ==
    LET val == ns[ns[n].lhs].value
    IN AddGradient(ns, ns[n].lhs,
                   (ns[n].exponent * IntPow(val, ns[n].exponent - 1)) * ns[n].gradient)

\* Operation::Tanh arm
PushTanh(ns, n) ==
    AddGradient(ns, ns[n].lhs, (1 - IntPow(ns[n].value, 2)) * ns[n].gradient)

\* the match of ValueInner::backpropagate, up to the recursive calls
PushInto(ns, n) ==
    CASE ns[n].operation = "Add" -> PushAdd(ns, n)
      [] ns[n].operation = "Sub" -> PushSub(ns, n)
      [] ns[n].operation = "Multiply" -> PushMultiply(ns, n)
      [] ns[n].operation = "Pow" -> PushPow(ns, n)
      [] ns[n].operation = "Tanh" -> PushTanh(ns, n)
      [] OTHER -> ns

\* borrow_mut() panics (BorrowMutError) when the RefCell is already borrowed:
\* by a frame of the recursion, or, in the Multiply arm, by the temporary
\* `rhs.borrow()` / `lhs.borrow()` of the same statement when lhs and rhs are
\* the same RefCell.
BorrowPanics(n) ==
    LET self == nodes[n]
    IN /\ self.operation # "Constant"
       /\ \/ Borrowed(self.lhs)
          \/ self.rhs # 0 /\ Borrowed(self.rhs)
          \/ self.operation = "Multiply" /\ self.lhs = self.rhs

\* Value::backpropagate: seed the root by overwrite, then recurse
ValueBackpropagate(r) ==
    /\ status \in {"idle", "done"}
    /\ r \in 1..Len(nodes)
    /\ pre' = [i \in 1..Len(nodes) |-> nodes[i].gradient]
    /\ nodes' = Seed(nodes, r)
    /\ stack' = <<Frame(r, "enter")>>
    /\ status' = "running"
    /\ root' = r
    /\ calls' = calls + 1
    /\ pushes' = <<>>
    /\ UNCHANGED driver

\* Entry of ValueInner::backpropagate on a Constant: the arm is (), return
EnterConstant ==
    /\ status = "running"
    /\ Top.pc = "enter"
    /\ nodes[Top.node].operation = "Constant"
    /\ stack' = Pop(stack)
    /\ status' = IF Len(stack) = 1 THEN "done" ELSE "running"
    /\ UNCHANGED <<nodes, root, calls, pushes, pre, driver>>

\* Entry on an operation node: the accumulate statements, or the panic
EnterPush ==
    /\ status = "running"
    /\ Top.pc = "enter"
    /\ nodes[Top.node].operation # "Constant"
    /\ IF BorrowPanics(Top.node)
       THEN /\ status' = "panicked"
            /\ UNCHANGED <<nodes, stack, pushes>>
       ELSE /\ nodes' = PushInto(nodes, Top.node)
            /\ pushes' = Append(pushes, Top.node)
            /\ stack' = [stack EXCEPT ![Len(stack)].pc = "lhs"]
            /\ UNCHANGED status
    /\ UNCHANGED <<root, calls, pre, driver>>

\* `lhs.borrow().backpropagate()` (or `it.borrow().backpropagate()`)
RecurseLhs ==
    /\ status = "running"
    /\ Top.pc = "lhs"
    /\ stack' = Append([stack EXCEPT ![Len(stack)].pc =
                          IF nodes[Top.node].rhs = 0 THEN "ret" ELSE "rhs"],
                       Frame(nodes[Top.node].lhs, "enter"))
    /\ UNCHANGED <<nodes, status, root, calls, pushes, pre, driver>>

\* `rhs.borrow().backpropagate()`
RecurseRhs ==
    /\ status = "running"
    /\ Top.pc = "rhs"
    /\ stack' = Append([stack EXCEPT ![Len(stack)].pc = "ret"],
                       Frame(nodes[Top.node].rhs, "enter"))
    /\ UNCHANGED <<nodes, status, root, calls, pushes, pre, driver>>

\* end of the match arm: the call returns
Return ==
    /\ status = "running"
    /\ Top.pc = "ret"
    /\ stack' = Pop(stack)
    /\ status' = IF Len(stack) = 1 THEN "done" ELSE "running"
    /\ UNCHANGED <<nodes, root, calls, pushes, pre, driver>>

Step == EnterConstant \/ EnterPush \/ RecurseLhs \/ RecurseRhs \/ Return

----------------------------------------------------------------------------
(* src/nn.rs: Neuron, Layer, Mlp *)

\* Always TRUE.  Rust evaluates each statement before the next; TLC evaluates an
\* argument only when it is first read, so the loops below read the arena they
\* are handed before they go on.
Evaluated(ns) == Len(ns) >= 0

\* rng.gen_range(-1.0..=1.0): the generator is a stream fixed by its seed
GenRange(s) == (s % 3) - 1
RngNext(s) == (5 * s + 3) % 8

RECURSIVE NewWeights(_, _)
\* the weights of Neuron::new, w_0 .. w_{inputs-1}; st = [nodes, rng, weights]
NewWeights(st, n) ==
    IF Evaluated(st.nodes) /\ n = 0 THEN st
    ELSE NewWeights([nodes |-> ValueNew(st.nodes, GenRange(st.rng)),
                     rng |-> RngNext(st.rng),
                     weights |-> Append(st.weights, Len(st.nodes) + 1)], n - 1)

\* Neuron::new: the weights, then the bias
NeuronNew(ns, rng, inputs) ==
    LET w == NewWeights([nodes |-> ns, rng |-> rng, weights |-> <<>>], inputs)
    IN [nodes |-> ValueNew(w.nodes, GenRange(w.rng)),
        rng |-> RngNext(w.rng),
        neuron |-> [weights |-> w.weights, bias |-> Len(w.nodes) + 1]]

RECURSIVE NewNeurons(_, _, _)
\* st = [nodes, rng, neurons]
NewNeurons(st, inputs, n) ==
    IF Evaluated(st.nodes) /\ n = 0 THEN st
    ELSE LET nn == NeuronNew(st.nodes, st.rng, inputs)
         IN NewNeurons([nodes |-> nn.nodes, rng |-> nn.rng,
                        neurons |-> Append(st.neurons, nn.neuron)], inputs, n - 1)

\* Layer::new
LayerNew(ns, rng, inputs, outputs) ==
    LET st == NewNeurons([nodes |-> ns, rng |-> rng, neurons |-> <<>>], inputs, outputs)
    IN [nodes |-> st.nodes, rng |-> st.rng,
        layer |-> [inputs |-> inputs, neurons |-> st.neurons]]

RECURSIVE NewLayers(_, _, _)
\* the windows(2) of [inputs] ++ layer_sizes, from window i on; st = [nodes, rng, layers]
NewLayers(st, sizes, i) ==
    IF Evaluated(st.nodes) /\ i >= Len(sizes) THEN st
    ELSE LET l == LayerNew(st.nodes, st.rng, sizes[i], sizes[i + 1])
         IN NewLayers([nodes |-> l.nodes, rng |-> l.rng,
                       layers |-> Append(st.layers, l.layer)], sizes, i + 1)

\* Mlp::new
MlpNew(ns, rng, inputs, layer_sizes) ==
    LET st == NewLayers([nodes |-> ns, rng |-> rng, layers |-> <<>>],
                        <<inputs>> \o layer_sizes, 1)
    IN [nodes |-> st.nodes, mlp |-> [inputs |-> inputs, layers |-> st.layers]]

\* Result<T>: Ok(outs), with the arena as the call left it
Ok(ns, outs) ==
    [ok |-> TRUE, nodes |-> ns, outs |-> outs, expected |-> 0, actual |-> 0]

\* Err(Error::DimensionMismatch(expected, actual))
DimensionMismatch(ns, expected, actual) ==
    [ok |-> FALSE, nodes |-> ns, outs |-> <<>>, expected |-> expected, actual |-> actual]

\* mutant of Mismatch: only a sequence that is too short is refused
MismatchShort(x, n) == Len(x) < n

\* `x.len() != self.inputs`, `x.len() != self.weights.len()`
Mismatch(x, n) == Len(x) # n

Min(a, b) == IF a < b THEN a ELSE b

RECURSIVE NeuronFold(_, _, _, _, _)
\* the fold of Neuron::call over weights.iter().zip(x), from pair i on:
\* sum + w * x builds the product, then the sum
NeuronFold(ns, neuron, x, i, sum) ==
    IF Evaluated(ns) /\ i > Min(Len(neuron.weights), Len(x)) THEN [nodes |-> ns, sum |-> sum]
    ELSE LET prod == MulOp(ns, neuron.weights[i], x[i])
             added == AddOp(prod, sum, Len(prod))
         IN NeuronFold(added, neuron, x, i + 1, Len(added))

\* Neuron::call
NeuronCall(ns, neuron, x) ==
    IF Mismatch(x, Len(neuron.weights))
    THEN DimensionMismatch(ns, Len(neuron.weights), Len(x))
    ELSE LET f == NeuronFold(ns, neuron, x, 1, neuron.bias)
             t == TanhOp(f.nodes, f.sum)
         IN Ok(t, <<Len(t)>>)

RECURSIVE LayerMap(_, _, _, _, _)
\* neurons.iter().map(|neuron| neuron.call(x)).collect::<Result<Vec<_>>>():
\* the first Err ends the iteration
LayerMap(ns, neurons, x, i, outs) ==
    IF Evaluated(ns) /\ i > Len(neurons) THEN Ok(ns, outs)
    ELSE LET r == NeuronCall(ns, neurons[i], x)
         IN IF r.ok THEN LayerMap(r.nodes, neurons, x, i + 1, outs \o r.outs)
            ELSE r

\* Layer::call
LayerCall(ns, layer, x) ==
    IF Mismatch(x, layer.inputs)
    THEN DimensionMismatch(ns, layer.inputs, Len(x))
    ELSE LayerMap(ns, layer.neurons, x, 1, <<>>)

RECURSIVE LayerFold(_, _, _)
\* self.layers[1..].iter().try_fold(init, |result, layer| layer.call(&result))
LayerFold(r, layers, i) ==
    IF Evaluated(r.nodes) /\ (i > Len(layers) \/ ~r.ok) THEN r
    ELSE LayerFold(LayerCall(r.nodes, layers[i], r.outs), layers, i + 1)

\* Mlp::predict
MlpPredict(ns, m, x) ==
    IF Mismatch(x, m.inputs)
    THEN DimensionMismatch(ns, m.inputs, Len(x))
    ELSE LayerFold(LayerCall(ns, m.layers[1], x), m.layers, 2)

RECURSIVE NudgeAll(_, _, _, _)
\* `for weight in &neuron.weights { weight.nudge(rate) }`; st = [nodes, order]
NudgeAll(st, ids, i, rate) ==
    IF Evaluated(st.nodes) /\ i > Len(ids) THEN st
    ELSE NudgeAll([nodes |-> Nudge(st.nodes, ids[i], rate),
                   order |-> Append(st.order, ids[i])], ids, i + 1, rate)

\* the body of `for neuron in &layer.neurons`: the bias, then the weights
NudgeNeuron(st, neuron, rate) ==
    NudgeAll([nodes |-> Nudge(st.nodes, neuron.bias, rate),
              order |-> Append(st.order, neuron.bias)], neuron.weights, 1, rate)

RECURSIVE NudgeNeurons(_, _, _, _)
NudgeNeurons(st, neurons, i, rate) ==
    IF Evaluated(st.nodes) /\ i > Len(neurons) THEN st
    ELSE NudgeNeurons(NudgeNeuron(st, neurons[i], rate), neurons, i + 1, rate)

RECURSIVE NudgeLayers(_, _, _, _)
NudgeLayers(st, layers, i, rate) ==
    IF Evaluated(st.nodes) /\ i > Len(layers) THEN st
    ELSE NudgeLayers(NudgeNeurons(st, layers[i].neurons, 1, rate), layers, i + 1, rate)

\* Mlp::nudge_parameters; `order` records the nodes nudged, in order
MlpNudgeParameters(ns, m, rate) ==
    NudgeLayers([nodes |-> ns, order |-> <<>>], m.layers, 1, rate)

----------------------------------------------------------------------------
(* Programs that call the engine *)

NoMlp == [inputs |-> 0, layers |-> <<>>]
NoMain == [pc |-> "engine", iter |-> 0, xs |-> <<>>, ys |-> <<>>,
           ypred |-> <<>>, loss |-> 0, rate |-> 0]
NoResult == [called |-> FALSE, ok |-> TRUE, outs |-> <<>>, expected |-> 0,
             actual |-> 0, len |-> 0, before |-> <<>>]
NoNudge == [called |-> FALSE, order |-> <<>>, before |-> <<>>, rate |-> 0]

InitEngine(ns, sc, m, mn) ==
    /\ nodes = ns
    /\ stack = <<>>
    /\ status = "idle"
    /\ root = 0
    /\ calls = 0
    /\ pushes = <<>>
    /\ pre = <<>>
    /\ scenario = sc
    /\ mlp = m
    /\ main = mn
    /\ result = NoResult
    /\ nudged = NoNudge

(* A program that builds an expression graph and differentiates it *)

Building == status = "idle" /\ Len(nodes) < scenario.maxNodes

NewConstant ==
    /\ Building
    /\ \E v \in LeafValues : nodes' = ValueNew(nodes, v)
    /\ UNCHANGED <<stack, status, root, calls, pushes, pre, driver>>

NewAdd ==
    /\ Building
    /\ \E a, b \in 1..Len(nodes) : nodes' = AddOp(nodes, a, b)
    /\ UNCHANGED <<stack, status, root, calls, pushes, pre, driver>>

NewSub ==
    /\ Building
    /\ \E a, b \in 1..Len(nodes) : nodes' = SubOp(nodes, a, b)
    /\ UNCHANGED <<stack, status, root, calls, pushes, pre, driver>>

NewMul ==
    /\ Building
    /\ \E a, b \in 1..Len(nodes) : nodes' = MulOp(nodes, a, b)
    /\ UNCHANGED <<stack, status, root, calls, pushes, pre, driver>>

Backpropagate ==
    \E r \in 1..Len(nodes) :
        /\ calls < scenario.maxCalls
        /\ scenario.anyRoot \/ r = Len(nodes)
        /\ ValueBackpropagate(r)

\* one backpropagate call on the node built last, on a fresh graph
Init ==
    InitEngine(<<>>, [maxNodes |-> MaxNodes, maxCalls |-> 1, anyRoot |-> FALSE],
               NoMlp, NoMain)

Next == NewConstant \/ NewAdd \/ NewSub \/ NewMul \/ Backpropagate \/ Step

Spec == Init /\ [][Next]_vars

\* several backpropagate calls, on any node, without resetting the gradients
InitReuse ==
    InitEngine(<<>>, [maxNodes |-> MaxReuseNodes, maxCalls |-> MaxCalls, anyRoot |-> TRUE],
               NoMlp, NoMain)

SpecReuse == InitReuse /\ [][Next]_vars

\* a call that has begun keeps running: the engine is synchronous
InitFair ==
    InitEngine(<<>>, [maxNodes |-> MaxReuseNodes, maxCalls |-> 1, anyRoot |-> TRUE],
               NoMlp, NoMain)

SpecFair == InitFair /\ [][Next]_vars /\ WF_vars(Step)

----------------------------------------------------------------------------
(* src/value.rs tests::backpropagation_sub, for any two leaf values *)

\* a, b, c = a - b; d, e, f = d + (e * Value::new(-1.0, "-1"))
SubGraph(va, vb) ==
    LET abc == SubOp(ValueNew(ValueNew(<<>>, va), vb), 1, 2)
        de == ValueNew(ValueNew(abc, va), vb)
        neg == NegOp(de, 5)
    IN AddOp(neg, 4, Len(neg))

SubHandles == [pc |-> "test", a |-> 1, b |-> 2, c |-> 3, d |-> 4, e |-> 5, f |-> 8]

InitSub ==
    \E va, vb \in (-MaxAbs)..MaxAbs :
        InitEngine(SubGraph(va, vb), [maxNodes |-> 0, maxCalls |-> 2, anyRoot |-> FALSE],
                   NoMlp, SubHandles)

\* c.backpropagate(); f.backpropagate();
SubBackpropagate ==
    /\ calls < scenario.maxCalls
    /\ ValueBackpropagate(IF calls = 0 THEN main.c ELSE main.f)

NextSub == SubBackpropagate \/ Step

SpecSub == InitSub /\ [][NextSub]_vars

----------------------------------------------------------------------------
(* A program that calls Mlp::predict with input sequences of any length *)

\* the data of main, on the integer grid (0.5 is taken as 1)
MainXs == << <<2, 3, -1>>, <<3, -1, 1>>, <<1, 1, 1>>, <<1, 1, -1>> >>
MainYs == <<1, -1, -1, 1>>

RECURSIVE SumTo(_, _)
SumTo(sizes, i) == IF i = 0 THEN 0 ELSE sizes[i] + SumTo(sizes, i - 1)

\* the layer_sizes of Mlp::new: every shape of at most MaxNeurons neurons
LayerSizes ==
    {sizes \in UNION {[1..m -> 1..MaxNeurons] : m \in 1..MaxNeurons} :
        SumTo(sizes, Len(sizes)) <= MaxNeurons}

Leaf(v) == ValueInner("Constant", 0, 0, 0, v)

\* MaxInputs + 1 input leaves, so that a sequence can be too long
Pool == [i \in 1..(MaxInputs + 1) |-> Leaf(MainXs[1][((i - 1) % 3) + 1])]

InitNet ==
    \E k \in 1..MaxInputs, sizes \in LayerSizes, seed \in 0..MaxSeed :
        LET net == MlpNew(Pool, seed, k, sizes)
        IN InitEngine(net.nodes, [maxNodes |-> 0, maxCalls |-> MaxPredicts, anyRoot |-> FALSE],
                      net.mlp,
                      [NoMain EXCEPT !.pc = "net", !.xs = <<[i \in 1..Len(Pool) |-> i]>>])

ResultOf(r, x, before) ==
    [called |-> TRUE, ok |-> r.ok, outs |-> r.outs, expected |-> r.expected,
     actual |-> r.actual, len |-> Len(x), before |-> before]

NetPredict ==
    /\ main.pc = "net"
    /\ status # "running"
    /\ main.iter < MaxPredicts
    /\ \E len \in 0..Len(main.xs[1]) :
          LET x == SubSeq(main.xs[1], 1, len)
              r == MlpPredict(nodes, mlp, x)
          IN /\ nodes' = r.nodes
             /\ result' = ResultOf(r, x, nodes)
    /\ main' = [main EXCEPT !.iter = @ + 1]
    /\ UNCHANGED <<stack, status, root, calls, pushes, pre, scenario, mlp, nudged>>

\* the first output of a successful prediction is differentiated
NetBackpropagate ==
    /\ result.called /\ result.ok
    /\ calls < main.iter
    /\ ValueBackpropagate(result.outs[1])

NextNet == NetPredict \/ NetBackpropagate \/ Step

SpecNet == InitNet /\ [][NextNet]_vars

----------------------------------------------------------------------------
(* src/main.rs: the training loop *)

Rates == {1, 2}

InitTrain ==
    \E k \in 1..MaxInputs, n \in 1..MaxSamples, sizes \in LayerSizes,
       seed \in 0..MaxSeed, rate \in Rates :
        LET data == [i \in 1..(n * k + n) |->
                        IF i <= n * k
                        THEN Leaf(MainXs[((i - 1) \div k) + 1][((i - 1) % k) + 1])
                        ELSE Leaf(MainYs[i - n * k])]
            net == MlpNew(data, seed, k, sizes)
        IN InitEngine(net.nodes, [maxNodes |-> 0, maxCalls |-> MaxIters, anyRoot |-> FALSE],
                      net.mlp,
                      [pc |-> "predict", iter |-> 0,
                       xs |-> [j \in 1..n |-> [i \in 1..k |-> (j - 1) * k + i]],
                       ys |-> [j \in 1..n |-> n * k + j],
                       ypred |-> <<>>, loss |-> 0, rate |-> rate])

\* `mlp.predict(x).expect("should predict")[0].clone()` for the next x of xs
MainPredict ==
    /\ main.pc = "predict"
    /\ LET x == main.xs[Len(main.ypred) + 1]
           r == MlpPredict(nodes, mlp, x)
       IN /\ nodes' = r.nodes
          /\ result' = ResultOf(r, x, <<>>)
          /\ main' = IF r.ok
                     THEN [main EXCEPT !.ypred = Append(@, r.outs[1]),
                                       !.pc = IF Len(main.ypred) + 1 = Len(main.xs)
                                              THEN "loss" ELSE "predict"]
                     ELSE [main EXCEPT !.pc = "panicked"]
    /\ UNCHANGED <<stack, status, root, calls, pushes, pre, scenario, mlp, nudged>>

RECURSIVE LossFold(_, _, _, _, _)
\* the fold of loss over ypred.iter().zip(ys): sum + (ypred - y).pow(2.0)
LossFold(ns, ys, ypred, i, sum) ==
    IF Evaluated(ns) /\ i > Min(Len(ypred), Len(ys)) THEN [nodes |-> ns, loss |-> sum]
    ELSE LET sub == SubOp(ns, ypred[i], ys[i])
             pw == PowOp(sub, Len(sub), 2)
             added == AddOp(pw, sum, Len(pw))
         IN LossFold(added, ys, ypred, i + 1, Len(added))

\* fn loss
Loss(ns, ys, ypred) == LossFold(ValueNew(ns, 0), ys, ypred, 1, Len(ns) + 1)

MainLoss ==
    /\ main.pc = "loss"
    /\ LET l == Loss(nodes, main.ys, main.ypred)
       IN /\ nodes' = l.nodes
          /\ main' = [main EXCEPT !.loss = l.loss, !.pc = "backprop"]
    /\ UNCHANGED <<stack, status, root, calls, pushes, pre, scenario, mlp, result, nudged>>

\* loss.backpropagate()
MainBackpropagate ==
    /\ main.pc = "backprop"
    /\ calls = main.iter
    /\ ValueBackpropagate(main.loss)

\* mlp.nudge_parameters(rate), and the next iteration of the for loop
MainNudge ==
    /\ main.pc = "backprop"
    /\ status = "done"
    /\ calls = main.iter + 1
    /\ LET st == MlpNudgeParameters(nodes, mlp, main.rate)
       IN /\ nodes' = st.nodes
          /\ nudged' = [called |-> TRUE, order |-> st.order, before |-> nodes,
                        rate |-> main.rate]
    /\ main' = [main EXCEPT !.iter = @ + 1, !.ypred = <<>>,
                            !.pc = IF main.iter + 1 = MaxIters THEN "exit" ELSE "predict"]
    /\ UNCHANGED <<stack, status, root, calls, pushes, pre, scenario, mlp, result>>

NextTrain == MainPredict \/ MainLoss \/ MainBackpropagate \/ Step \/ MainNudge

SpecTrain == InitTrain /\ [][NextTrain]_vars

----------------------------------------------------------------------------
(* The graph as mathematics: operand edges, reachability, the derivative *)

\* the operand edges of node p, as <<parent, side, operand>>
Edges(p) ==
    IF nodes[p].operation = "Constant" THEN {}
    ELSE {<<p, "lhs", nodes[p].lhs>>} \cup
         (IF nodes[p].rhs = 0 THEN {} ELSE {<<p, "rhs", nodes[p].rhs>>})

RECURSIVE ReachableFrom(_)
ReachableFrom(n) ==
    {n} \cup UNION {ReachableFrom(e[3]) : e \in Edges(n)}

\* the operand edges, among the nodes reachable from r, that reference n
EdgesInto(r, n) == {e \in UNION {Edges(p) : p \in ReachableFrom(r)} : e[3] = n}

Parents(r, n) == {e[1] : e \in EdgesInto(r, n)}

\* the local derivative of node p with respect to the operand on `side`
Local(p, side) ==
    LET self == nodes[p]
    IN CASE self.operation = "Add" -> 1
         [] self.operation = "Sub" -> IF side = "lhs" THEN 1 ELSE -1
         [] self.operation = "Multiply" ->
              IF side = "lhs" THEN nodes[self.rhs].value ELSE nodes[self.lhs].value
         [] self.operation = "Pow" ->
              self.exponent * IntPow(nodes[self.lhs].value, self.exponent - 1)
         [] self.operation = "Tanh" -> 1 - self.value * self.value

RECURSIVE PathSum(_, _, _)
\* the sum, over the edges in es, of local derivative times derivative below
RECURSIVE Deriv(_, _)
PathSum(es, n, acc) ==
    IF es = {} THEN acc
    ELSE LET e == CHOOSE x \in es : TRUE
         IN PathSum(es \ {e}, n, acc + Local(e[1], e[2]) * Deriv(e[3], n))

\* d m / d n: the sum over all operand paths from m to n of the product of
\* the local derivatives along the path
Deriv(m, n) == IF m = n THEN 1 ELSE PathSum(Edges(m), n, 0)

Finished == status = "done"

FreshBefore == \A i \in 1..Len(pre) : pre[i] = 0

GradientsAreDerivatives ==
    \A n \in ReachableFrom(root) : nodes[n].gradient = Deriv(root, n)

\* only Constant leaves are referenced by more than one operand edge, and no
\* Multiply has the same node as both operands
SharesOnlyLeaves(r) ==
    /\ \A n \in ReachableFrom(r) :
          Cardinality(EdgesInto(r, n)) > 1 => nodes[n].operation = "Constant"
    /\ \A p \in ReachableFrom(r) :
          nodes[p].operation = "Multiply" => nodes[p].lhs # nodes[p].rhs

----------------------------------------------------------------------------
(* Claims *)

\* C1: on every DAG of Constant, Add, Sub and Multiply nodes whose gradients
\* were all 0, after backpropagate(r) every node reachable from r holds the
\* derivative of r with respect to it (the sum over all paths).
C1_AllDags == (Finished /\ FreshBefore) => GradientsAreDerivatives

\* C2: for a leaf x with gradient 0 and p = x * x, backpropagate(p) completes
\* without a runtime failure and leaves gradient(x) = 2 * value(x) and
\* gradient(p) = 1.
C2_SquareCompletes ==
    (/\ status \in {"done", "panicked"}
     /\ FreshBefore
     /\ nodes[root].operation = "Multiply"
     /\ nodes[root].lhs = nodes[root].rhs
     /\ nodes[nodes[root].lhs].operation = "Constant")
    => /\ status = "done"
       /\ nodes[nodes[root].lhs].gradient = 2 * nodes[nodes[root].lhs].value
       /\ nodes[root].gradient = 1

\* C3: whatever gradients the graph held before, when backpropagate(r) has
\* returned, gradient(r) = 1.
C3_RootIsOne == Finished => nodes[root].gradient = 1

\* C3 witness: a call returned on a root that held a stale gradient other than
\* 0 and 1 from an earlier call
C3_Witness == Finished /\ calls > 1 /\ pre[root] \notin {0, 1}

\* C7: during one backpropagate(r) every reachable operation node pushes into
\* its operands exactly once, and only after every reachable node that
\* references it has pushed.
C7_PushOnceInOrder ==
    /\ \A i \in 1..Len(pushes) :
          /\ \A j \in 1..(i - 1) : pushes[j] # pushes[i]
          /\ \A p \in Parents(root, pushes[i]) :
                \E j \in 1..(i - 1) : pushes[j] = p
    /\ Finished =>
          \A n \in ReachableFrom(root) :
             nodes[n].operation # "Constant" =>
                \E i \in 1..Len(pushes) : pushes[i] = n

\* C9: every backpropagate call that has begun comes to an end.
C9_Terminates == (status = "running") ~> (status \in {"done", "panicked"})

\* C9 witness: a call has returned on a graph in which an operation node is
\* referenced by two operand edges
C9_Witness ==
    /\ Finished
    /\ \E n \in ReachableFrom(root) :
          nodes[n].operation # "Constant" /\ Cardinality(EdgesInto(root, n)) > 1

\* C10: when only Constant leaves are shared and no Multiply squares a node,
\* after backpropagate(r) on a graph whose gradients were all 0 every
\* reachable node holds the derivative of r with respect to it.
C10_SharedLeaves ==
    (Finished /\ FreshBefore /\ SharesOnlyLeaves(root)) => GradientsAreDerivatives

\* C10 witness: such a call has returned on a graph with a Multiply and a leaf
\* referenced by two operand edges, whose gradient is not 0
C10_Witness ==
    /\ Finished /\ FreshBefore /\ SharesOnlyLeaves(root)
    /\ \E p \in ReachableFrom(root) : nodes[p].operation = "Multiply"
    /\ \E n \in ReachableFrom(root) :
          Cardinality(EdgesInto(root, n)) > 1 /\ nodes[n].gradient # 0

\* the parameters of the network: every weight and bias of every neuron
Params(m) ==
    UNION {UNION {{m.layers[l].neurons[j].bias} \cup
                  {m.layers[l].neurons[j].weights[i] :
                      i \in 1..Len(m.layers[l].neurons[j].weights)} :
                  j \in 1..Len(m.layers[l].neurons)} :
           l \in 1..Len(m.layers)}

Count(seq, x) == Cardinality({i \in 1..Len(seq) : seq[i] = x})

\* nudge_parameters has returned and backpropagate has not been called since
JustNudged == nudged.called /\ calls = main.iter

\* C4: nudge(rate) leaves value = v - rate * g and gradient = 0, and
\* nudge_parameters(rate) nudges every parameter exactly once and changes no
\* other node.
C4_NudgeParameters ==
    JustNudged =>
       \A i \in 1..Len(nudged.before) :
          IF i \in Params(mlp)
          THEN /\ Count(nudged.order, i) = 1
               /\ nodes[i].value =
                     nudged.before[i].value - nudged.rate * nudged.before[i].gradient
               /\ nodes[i].gradient = 0
               /\ nodes[i].operation = nudged.before[i].operation
          ELSE /\ Count(nudged.order, i) = 0
               /\ nodes[i] = nudged.before[i]

\* C4 witness: a nudge moved a parameter whose gradient was not 0, and left a
\* node that is not a parameter with its gradient, which is not 0
C4_Witness ==
    /\ JustNudged
    /\ \E i \in Params(mlp) :
          nudged.before[i].gradient # 0 /\ nodes[i].value # nudged.before[i].value
    /\ \E i \in 1..Len(nudged.before) : i \notin Params(mlp) /\ nodes[i].gradient # 0

\* C5: predict(x) with len(x) # k returns DimensionMismatch(k, len(x)),
\* constructs no node and changes no existing node.
C5_Mismatch ==
    (result.called /\ result.len # mlp.inputs) =>
       /\ ~result.ok
       /\ result.expected = mlp.inputs
       /\ result.actual = result.len
       /\ nodes = result.before

\* C5 witness: a sequence that is too long was refused, on a graph that holds
\* gradients from an earlier backpropagate
C5_Witness ==
    /\ result.called /\ ~result.ok
    /\ result.len > mlp.inputs
    /\ \E i \in 1..Len(nodes) : nodes[i].gradient # 0

\* C6: backpropagate on a - b and, on a separate graph of the same leaf
\* values, on d + (e * -1) leaves gradient(a) = gradient(d) and
\* gradient(b) = gradient(e).
C6_SubIsAddNeg ==
    (Finished /\ calls = 2) =>
       /\ nodes[main.a].gradient = nodes[main.d].gradient
       /\ nodes[main.b].gradient = nodes[main.e].gradient

\* C6 witness: both calls have returned, on leaves of different values, and
\* gradient(b) is -1
C6_Witness ==
    /\ Finished /\ calls = 2
    /\ nodes[main.a].value # nodes[main.b].value
    /\ nodes[main.b].gradient = -1

\* C8: in the training loop, when backpropagate(loss) is called, every node
\* reachable from the loss has gradient 0.
C8_FreshAtBackpropagate ==
    (main.pc = "backprop" /\ calls = main.iter /\ status # "running") =>
       \A n \in ReachableFrom(main.loss) : nodes[n].gradient = 0

====
